---- MODULE Spec2Model ----
(***************************************************************************)
(* The EDM credential lifecycle of fit-doctor: the stored OAuth2 entries   *)
(* (prisma.edmAuth), the refresh-all sweep (refresh-all/route.ts) and the  *)
(* request-triggered refresh of the business routes (order-visit/route.ts  *)
(* and the departments proxy), against an upstream token endpoint.         *)
(*                                                                         *)
(* Time is counted in seconds.  Every await of the code is a step of its   *)
(* own: the store reads (findMany, findFirst), the token-endpoint call     *)
(* (one step sends it, one step of the upstream answers it, one step of    *)
(* the caller resumes with the answer) and the store updates.  A store     *)
(* update is one atomic single-row statement.                              *)
(***************************************************************************)
EXTENDS Integers, Sequences, FiniteSets

\* ------------------------------------------------------------------ bounds
\* Number of EdmAuth rows in the store.
NumEntries == 2
\* Last value of the clock; Tick stops there.
MaxTime == 30
\* Number of grants the upstream answers with new tokens in one run.
MaxIssued == 1
\* Number of patients the EDM creates in one run.
MaxPatients == 2
\* The same where two refreshes of one entry race.
MaxIssuedRace == 2
\* refreshFailureCount is followed up to this value.
MaxFailures == 1
\* The sweep's result list and page count are followed up to this length.
MaxResults == 3

\* ------------------------------------------------------- program constants
\* refresh-all/route.ts:101 sets batchSize = 100; the model scales it to 2,
\* keeping the three cases N < batchSize, N = batchSize, N > batchSize.
batchSize == 2
\* 60 * 1000 ms: the safety margin of the fast path.
SafetyMargin == 60
\* 60 * 60 * 1000 ms: the retry delay after a failure.
FailureDelay == 3600
\* 8 * 60 * 60 * 1000 ms: the delay after a success.
SuccessDelay == 28800
\* The clock advances by this many seconds per Tick.
TickStep == 30
\* The expires_in the upstream sends when it sends one.
ExpiresIn == 90

\* -------------------------------------------------------------- the values
Ids == 1..NumEntries
Sweepers == {"cron"}
\* One invocation of a business route at a time; refreshAccessTokenIfNeeded of
\* the departments route is the same text as that of order-visit.
Requests == {"orderVisit"}
Procs == Sweepers \cup Requests
\* The invocations of order-visit that can overlap: the one above and one more.
Callers == Requests \cup {"orderVisitToo"}

\* Absent values (JS null / undefined / "" / 0, all falsy where the code tests).
NoTok == 0
NoTime == -1
NoCipher == [pt |-> 0, tag |-> FALSE]

\* The refresh token and access token entry i holds after the login.
\* Access tokens are numbered from 1; the refresh token the upstream issues
\* together with access token n is RefreshWith(n).
RefreshWith(n) == 100 + n
InitAccessTok(i) == i
InitRefreshTok(i) == RefreshWith(i)
FirstIssued == NumEntries + 1

\* ------------------------------------------- users, patients, the clinic
\* The users of the local database.
UserIds == {1}
\* body.userId: missing, or an id that no user has.
NoUserId == 0
UnknownUserId == 2
\* user.externalPatientId: absent, or the EDM id of a patient created before
\* the run; the EDM numbers the patients it creates from FirstPatient.
NoPatient == 0
KnownPatient == 1
FirstPatient == 2
\* body.doctor / body.department of an import: missing (Absent), an object
\* without id (NoId), or an object with an id.
Absent == -1
NoId == 0
DoctorInputs == {Absent, NoId, 7, 8}
DepartmentInputs == {Absent, NoId, 5}
\* Two imports at a time.
Importers == {"importA", "importB"}

\* ---------------------------------------------------------- configuration
\* process.env: a variable that is not set reads as "" (?? "").
Configured == [ADMIN_REFRESH_KEY |-> "secret", VERCEL |-> "",
               EDM_CLIENT_ID |-> "client", EDM_CLIENT_SECRET |-> "hidden"]

Envs == [ADMIN_REFRESH_KEY : {"", "secret"}, VERCEL : {"", "1"},
         EDM_CLIENT_ID : {"", "client"}, EDM_CLIENT_SECRET : {"", "hidden"}]

\* A header the request does not carry (headers.get gives null).
NoHeader == "<null>"

Bearer(k) == "Bearer " \o k

\* The headers of a request to refresh-all that checkAuth reads.
SweepHeaders == [authorization : {NoHeader, Bearer("secret"), Bearer("wrong")},
                 xAdminKey : {NoHeader, "", "secret", "wrong"},
                 xVercelCron : {NoHeader, "1"}]

\* ------------------------------------------------------------- edm-crypto
\* encryptToken: authenticated encryption under the server key; the ciphertext
\* carries the plaintext and a tag that verifies.
encryptToken(t) == [pt |-> t, tag |-> TRUE]
\* A ciphertext whose authentication tag does not verify.
Corrupt(t) == [pt |-> t, tag |-> FALSE]
\* decryptToken throws on a ciphertext that does not authenticate.
decryptThrows(c) == ~c.tag
decryptToken(c) == c.pt
\* hashToken: deterministic, one-way digest (injective on the tokens in play).
hashToken(t) == 1000 + 7 * t

VARIABLES
  edmAuth,   \* the store: Ids -> EdmAuth row
  now,       \* the clock (Date.now()), in seconds
  sweep,     \* Sweepers -> state of the refresh-all POST invocation
  req,       \* Callers -> state of the business-route invocation
  calls,     \* token-endpoint calls sent and not yet consumed by their caller
  nextTok,   \* upstream: the next token value to issue
  issued,    \* upstream: the access tokens issued, each with its expires_in
  storeUp,   \* whether the database answers (an update throws while it is down)
  last,      \* the refresh attempt completed by the step just taken, if any
  env,       \* process.env: the configuration of the deployment
  user,      \* prisma.user: UserIds -> the user's row
  edmCfg,    \* prisma.edmDoctorDepartment: its rows, oldest first
  ov,        \* Callers -> the locals of the order-visit POST invocation
  imp,       \* Importers -> state of the import POST invocation
  edm        \* the EDM: the patients and visits it has created

\* The variables of the booking and import routes.
clinic == <<user, edmCfg, ov, imp, edm>>

vars == <<edmAuth, now, sweep, req, calls, nextTok, issued, storeUp, last, env,
          clinic>>

\* ---------------------------------------------------------------- values
\* What a caller keeps of a row it read: the fields the refresh code uses.
Snap(i, e) == [id |-> i,
               encryptedAccessToken |-> e.encryptedAccessToken,
               accessTokenExpiresAt |-> e.accessTokenExpiresAt,
               encryptedRefreshToken |-> e.encryptedRefreshToken,
               refreshTokenHash |-> e.refreshTokenHash]

\* The rows an entry can be in after the login (authorization-code exchange):
\* with a live access token, without one, with a damaged refresh ciphertext,
\* or revoked.
EntryAfterLogin(i, kind) ==
  [encryptedAccessToken |->
     IF kind = "live" THEN encryptToken(InitAccessTok(i)) ELSE NoCipher,
   accessTokenExpiresAt |-> IF kind = "live" THEN ExpiresIn ELSE NoTime,
   encryptedRefreshToken |->
     IF kind = "damaged" THEN Corrupt(InitRefreshTok(i))
     ELSE encryptToken(InitRefreshTok(i)),
   refreshTokenHash |-> hashToken(InitRefreshTok(i)),
   lastRefreshedAt |-> IF kind = "live" THEN 0 ELSE NoTime,
   nextRefreshAt |-> 0,
   refreshFailureCount |-> 0,
   revoked |-> (kind = "revoked")]

\* refreshRecord reads r.id, r.encryptedRefreshToken and r.refreshTokenHash.
SweepSnap(i, e) == [Snap(i, e) EXCEPT !.encryptedAccessToken = NoCipher,
                                      !.accessTokenExpiresAt = NoTime]

EntryKinds == {"live", "bare", "damaged", "revoked"}

\* No body text; the body of an error answer of the token endpoint (an OAuth2
\* error document, which names the error and carries no token).
NoBody == ""
UpstreamErrorBody == "{error: invalid_grant}"

NoResp == [status |-> "pending", access_token |-> NoTok,
           refresh_token |-> NoTok, expires_in |-> 0, body |-> NoBody]

\* The diagnostic text of an outcome or an error response: a message, and
\* the upstream body interpolated into it.
Detail(text, body) == [text |-> text, body |-> body]
NoDetails == Detail("", NoBody)

\* err.message of what refreshRecord or refreshAccessTokenIfNeeded caught.
ErrMessage(kind, storeErr) ==
  IF storeErr THEN "PrismaClientError"
  ELSE IF kind = "decryptError" THEN "CryptoError"
  ELSE IF kind = "networkError" THEN "fetch failed"
  ELSE "No access_token in refresh response"

NoSnap == Snap(0, EntryAfterLogin(0, "bare"))

\* No attempt completed in the process's last step.
NoAttempt == [by |-> "none", id |-> 0, path |-> "none", kind |-> "none", t0 |-> NoTime,
              t1 |-> NoTime, rec |-> NoSnap, resp |-> NoResp,
              before |-> EntryAfterLogin(0, "bare"),
              after |-> EntryAfterLogin(0, "bare"),
              written |-> FALSE, storeErr |-> FALSE, ok |-> FALSE]

IdleSweep == [pc |-> "idle", keyed |-> FALSE, dueOnly |-> FALSE,
              page |-> <<>>, idx |-> 0,
              results |-> <<>>, pages |-> 0, status |-> 0,
              att |-> [kind |-> "none", t0 |-> NoTime, resp |-> NoResp,
                       storeErr |-> FALSE]]

\* t0: when refreshAccessTokenIfNeeded was called; grants and writes: the
\* token-endpoint calls and store updates the invocation has made; details:
\* the details of its error response.
IdleReq == [pc |-> "idle", rec |-> NoSnap, accessToken |-> NoTok, status |-> 0,
            t0 |-> NoTime, grants |-> 0, writes |-> 0, details |-> NoDetails]

\* A call the order-visit route makes to the EDM with its access token, and
\* the answer: the id of the created patient.
NoCall == [to |-> "none", status |-> "none", token |-> NoTok,
           patient |-> NoPatient, doctor |-> NoId, office |-> NoId,
           id |-> NoPatient]

\* body: userId and whether name and surname are given; user: the row
\* findUnique gave; created: a create-patient call was sent; visit: the
\* create-visit call was sent.
IdleVisit == [pc |-> "idle", body |-> [userId |-> NoUserId, named |-> FALSE],
              user |-> [externalPatientId |-> NoPatient],
              externalPatientId |-> NoPatient, call |-> NoCall,
              created |-> FALSE, visit |-> FALSE, answer |-> ""]

IdleImport == [pc |-> "idle", doctor |-> Absent, department |-> Absent,
               existing |-> 0, status |-> 0]

\* No request on the booking and import routes; the given users and rows.
InitClinic(users, rows) ==
  /\ user = users
  /\ edmCfg = rows
  /\ ov = [r \in Callers |-> IdleVisit]
  /\ imp = [p \in Importers |-> IdleImport]
  /\ edm = [nextPatient |-> FirstPatient, patients |-> {}, visits |-> {}]

\* One user that is not a patient of the EDM yet; no doctor and department
\* imported.
NewClinic ==
  InitClinic([u \in UserIds |-> [externalPatientId |-> NoPatient]], <<>>)

\* The store holds the given rows, of the given kinds; nothing runs.
InitRows(rows, kinds) ==
  /\ edmAuth = rows
  /\ now = 0
  /\ storeUp = TRUE
  /\ sweep = [s \in Sweepers |-> IdleSweep]
  /\ req = [r \in Callers |-> IdleReq]
  /\ calls = {}
  /\ nextTok = FirstIssued
  /\ issued = {[at |-> InitAccessTok(i), expires_in |-> ExpiresIn] :
                 i \in {j \in Ids : kinds[j] = "live"}}
  /\ last = NoAttempt
  /\ env \in Envs

InitTokens(kinds) == InitRows([i \in Ids |-> EntryAfterLogin(i, kinds[i])], kinds)

InitWith(kinds) == InitTokens(kinds) /\ NewClinic

\* One credential entry in use, every other row revoked.
OneInUse == {k \in [Ids -> EntryKinds] : \A i \in Ids : i > 1 => k[i] = "revoked"}

\* The deployment the routes are written for: every variable of the
\* configuration set, not on Vercel, one credential entry in use.
Init == (\E kinds \in OneInUse : InitWith(kinds)) /\ env = Configured

\* Any mix of rows.
InitMany == (\E kinds \in [Ids -> EntryKinds] : InitWith(kinds)) /\ env = Configured

\* One credential entry in use, under any configuration.
InitConfig == \E kinds \in OneInUse : InitWith(kinds)

\* ------------------------------------------------------------- the store
Min(a, b) == IF a < b THEN a ELSE b

NonRevoked == {i \in Ids : ~edmAuth[i].revoked}

RECURSIVE Ascending(_)
\* The ids of S in ascending order.
Ascending(S) ==
  IF S = {} THEN <<>>
  ELSE LET m == CHOOSE x \in S : \A y \in S : x <= y
       IN <<m>> \o Ascending(S \ {m})

\* prisma.edmAuth.findMany({ where: { revoked: false }, take: batchSize }):
\* the query names no order and no offset, so a page is any batchSize of the
\* non-revoked rows (all of them when there are fewer).
FindManyPages ==
  {[k \in 1..Len(Ascending(S)) |-> SweepSnap(Ascending(S)[k], edmAuth[Ascending(S)[k]])] :
     S \in {T \in SUBSET NonRevoked :
              Cardinality(T) = Min(batchSize, Cardinality(NonRevoked))}}

\* The non-revoked rows that are due: nextRefreshAt <= now.
Due == {i \in NonRevoked : edmAuth[i].nextRefreshAt <= now}

\* A due-only query without the test of nextRefreshAt.
FindDuePagesUngated == FindManyPages

\* findMany({ where: { revoked: false, nextRefreshAt: { lte: now } },
\* take: batchSize }): a page is any batchSize of the due rows.
FindDuePages ==
  {[k \in 1..Len(Ascending(S)) |-> SweepSnap(Ascending(S)[k], edmAuth[Ascending(S)[k]])] :
     S \in {T \in SUBSET Due : Cardinality(T) = Min(batchSize, Cardinality(Due))}}

\* A failure update that forgets the increment.
FailureUpdateNoIncrement(e, t) == [e EXCEPT !.nextRefreshAt = t + FailureDelay]

\* A failure update that leaves nextRefreshAt as it is.
FailureUpdateNoReschedule(e, t) == [e EXCEPT !.refreshFailureCount = @ + 1]

\* data: { refreshFailureCount: { increment: 1 }, nextRefreshAt: now + 1h }
FailureUpdate(e, t) ==
  [e EXCEPT !.refreshFailureCount = @ + 1, !.nextRefreshAt = t + FailureDelay]

\* A success update that takes the refresh token from the answer without
\* testing that the answer has one.
RefreshRecordUpdateNoTest(e, r, resp, t) ==
  [e EXCEPT
     !.encryptedAccessToken =
        IF resp.access_token # NoTok THEN encryptToken(resp.access_token) ELSE @,
     !.accessTokenExpiresAt =
        IF resp.expires_in # 0 THEN t + resp.expires_in ELSE @,
     !.encryptedRefreshToken = encryptToken(resp.refresh_token),
     !.refreshTokenHash = hashToken(resp.refresh_token),
     !.lastRefreshedAt = t,
     !.nextRefreshAt = t + SuccessDelay,
     !.refreshFailureCount = 0]

\* The update of refreshRecord after a 2xx answer.  An undefined value in
\* prisma's data leaves the column as it is: encAccess is undefined when the
\* answer has no access_token, and expiresAt ?? undefined when it has no
\* expires_in.  encRefresh and refreshHash start from the row as it was read.
RefreshRecordUpdate(e, r, resp, t) ==
  [e EXCEPT
     !.encryptedAccessToken =
        IF resp.access_token # NoTok THEN encryptToken(resp.access_token) ELSE @,
     !.accessTokenExpiresAt =
        IF resp.expires_in # 0 THEN t + resp.expires_in ELSE @,
     !.encryptedRefreshToken =
        IF resp.refresh_token # NoTok THEN encryptToken(resp.refresh_token)
        ELSE r.encryptedRefreshToken,
     !.refreshTokenHash =
        IF resp.refresh_token # NoTok THEN hashToken(resp.refresh_token)
        ELSE r.refreshTokenHash,
     !.lastRefreshedAt = t,
     !.nextRefreshAt = t + SuccessDelay,
     !.refreshFailureCount = 0]

\* A success update that replaces the ciphertext of a rotated refresh token
\* and keeps the hash of the row as it was read.
IfNeededUpdateStaleHash(e, rec, resp, t) ==
  [e EXCEPT
     !.encryptedAccessToken = encryptToken(resp.access_token),
     !.accessTokenExpiresAt =
        IF resp.expires_in # 0 THEN t + resp.expires_in ELSE @,
     !.encryptedRefreshToken =
        IF resp.refresh_token # NoTok THEN encryptToken(resp.refresh_token)
        ELSE rec.encryptedRefreshToken,
     !.refreshTokenHash = rec.refreshTokenHash,
     !.lastRefreshedAt = t,
     !.nextRefreshAt = t + SuccessDelay,
     !.refreshFailureCount = 0]

\* A success update that stores the access token as it came: a value that
\* encryptToken did not produce.
IfNeededUpdateUnencrypted(e, rec, resp, t) ==
  [e EXCEPT
     !.encryptedAccessToken = [pt |-> resp.access_token, tag |-> FALSE],
     !.accessTokenExpiresAt =
        IF resp.expires_in # 0 THEN t + resp.expires_in ELSE @,
     !.encryptedRefreshToken =
        IF resp.refresh_token # NoTok THEN encryptToken(resp.refresh_token)
        ELSE rec.encryptedRefreshToken,
     !.refreshTokenHash =
        IF resp.refresh_token # NoTok THEN hashToken(resp.refresh_token)
        ELSE rec.refreshTokenHash,
     !.lastRefreshedAt = t,
     !.nextRefreshAt = t + SuccessDelay,
     !.refreshFailureCount = 0]

\* The update of refreshAccessTokenIfNeeded after a 2xx answer that carries an
\* access_token.
IfNeededUpdate(e, rec, resp, t) ==
  [e EXCEPT
     !.encryptedAccessToken = encryptToken(resp.access_token),
     !.accessTokenExpiresAt =
        IF resp.expires_in # 0 THEN t + resp.expires_in ELSE @,
     !.encryptedRefreshToken =
        IF resp.refresh_token # NoTok THEN encryptToken(resp.refresh_token)
        ELSE rec.encryptedRefreshToken,
     !.refreshTokenHash =
        IF resp.refresh_token # NoTok THEN hashToken(resp.refresh_token)
        ELSE rec.refreshTokenHash,
     !.lastRefreshedAt = t,
     !.nextRefreshAt = t + SuccessDelay,
     !.refreshFailureCount = 0]

\* ------------------------------------------------------- the environment
Pending(c) == c.resp.status = "pending"

\* The refresh-token grant process p sends for the row r it read: the form
\* body (refresh_token, client_id, client_secret), the time it is sent, and
\* whether the row is revoked in the store at that time.
Grant(p, r, rawRefresh) ==
  [by |-> p, rec |-> r, rt |-> rawRefresh,
   client_id |-> env.EDM_CLIENT_ID, client_secret |-> env.EDM_CLIENT_SECRET,
   t0 |-> now, revokedAtSend |-> edmAuth[r.id].revoked, resp |-> NoResp]

\* Time passes.
Tick ==
  /\ now + TickStep <= MaxTime
  /\ now' = now + TickStep
  /\ last' = NoAttempt
  /\ UNCHANGED <<env, clinic, edmAuth, sweep, req, calls, nextTok, issued, storeUp>>

\* The database goes down or comes back.
StoreOutage ==
  /\ storeUp' = ~storeUp
  /\ last' = NoAttempt
  /\ UNCHANGED <<env, clinic, edmAuth, now, sweep, req, calls, nextTok, issued>>

\* An entry is revoked: the terminal soft delete of its row.
Revoke(i) ==
  /\ ~edmAuth[i].revoked
  /\ storeUp
  /\ edmAuth' = [edmAuth EXCEPT ![i] = [@ EXCEPT !.revoked = TRUE]]
  /\ last' = NoAttempt
  /\ UNCHANGED <<env, clinic, now, sweep, req, calls, nextTok, issued, storeUp>>

Answer(c, resp) ==
  /\ calls' = (calls \ {c}) \cup {[c EXCEPT !.resp = resp]}
  /\ last' = NoAttempt
  /\ UNCHANGED <<env, clinic, edmAuth, now, sweep, req, storeUp>>

\* The token endpoint cannot be reached, or its body is not JSON: fetch or
\* call.json() throws in the caller.
UpstreamThrows(c) ==
  /\ Pending(c)
  /\ edmAuth[c.rec.id].refreshFailureCount < MaxFailures
  /\ Answer(c, [NoResp EXCEPT !.status = "throw"])
  /\ UNCHANGED <<env, clinic, nextTok, issued>>

\* The token endpoint answers with a non-2xx status.
UpstreamRejects(c) ==
  /\ Pending(c)
  /\ edmAuth[c.rec.id].refreshFailureCount < MaxFailures
  /\ Answer(c, [NoResp EXCEPT !.status = "error", !.body = UpstreamErrorBody])
  /\ UNCHANGED <<env, clinic, nextTok, issued>>

\* The token endpoint answers 2xx with a body without tokens.
UpstreamEmpty(c) ==
  /\ Pending(c)
  /\ \E x \in {0, ExpiresIn} : Answer(c, [NoResp EXCEPT !.status = "ok", !.expires_in = x])
  /\ UNCHANGED <<env, clinic, nextTok, issued>>

\* The token endpoint answers 2xx with a new access_token, with or without a
\* rotated refresh_token and an expires_in; it does so budget times in a run.
UpstreamIssues(c, budget) ==
  /\ Pending(c)
  /\ \E x \in {0, ExpiresIn}, rot \in BOOLEAN :
       /\ nextTok < FirstIssued + budget
       /\ Answer(c, [status |-> "ok", access_token |-> nextTok,
                     refresh_token |-> IF rot THEN RefreshWith(nextTok) ELSE NoTok,
                     expires_in |-> x, body |-> NoBody])
       /\ nextTok' = nextTok + 1
       /\ issued' = issued \cup {[at |-> nextTok, expires_in |-> x]}

UpstreamGrants(c) == UpstreamIssues(c, MaxIssued)

\* ------------------------------------------------- refresh-all/route.ts
\* results.push(res); the list is followed up to MaxResults elements (the
\* code only appends to it and reads it once, for the response).
Push(results, res) ==
  IF Len(results) < MaxResults THEN Append(results, res) ELSE results

\* A refresh attempt by process p that ended in this step.
\* written: the attempt updated the row; storeErr: an update of it threw.
Attempt(p, path, kind, r, t0, resp, before, after, written, storeErr, ok) ==
  [by |-> p, id |-> r.id, path |-> path, kind |-> kind, t0 |-> t0, t1 |-> now,
   rec |-> r, resp |-> resp, before |-> before, after |-> after,
   written |-> written, storeErr |-> storeErr, ok |-> ok]

\* What a 2xx answer amounts to.
KindOfOk(resp) == IF resp.access_token # NoTok THEN "success" ELSE "malformed"

\* checkAuth(req): the bearer token or the x-admin-key header equals the
\* configured key, or the request carries x-vercel-cron on Vercel.
checkAuth(h) ==
  LET auth == IF h.authorization = NoHeader THEN "" ELSE h.authorization
      key == env.ADMIN_REFRESH_KEY IN
  \/ auth = Bearer(key)
  \/ h.xAdminKey = key
  \/ env.VERCEL = "1" /\ h.xVercelCron # NoHeader

\* The request carries the configured administrative key, as a bearer token
\* or as an API key.
CarriesKey(h) ==
  /\ env.ADMIN_REFRESH_KEY # ""
  /\ \/ h.authorization = Bearer(env.ADMIN_REFRESH_KEY)
     \/ h.xAdminKey = env.ADMIN_REFRESH_KEY

\* POST: a request that fails checkAuth is answered 401; else the first
\* findMany is sent.
SweepStart(s) ==
  /\ sweep[s].pc = "idle"
  /\ \E h \in SweepHeaders :
       sweep' = [sweep EXCEPT ![s] =
         IF checkAuth(h)
         THEN [IdleSweep EXCEPT !.pc = "findMany", !.keyed = CarriesKey(h)]
         ELSE [IdleSweep EXCEPT !.pc = "done", !.status = 401,
                                !.keyed = CarriesKey(h)]]
  /\ last' = NoAttempt
  /\ UNCHANGED <<env, clinic, edmAuth, now, req, calls, nextTok, issued, storeUp>>

\* POST of the due-only variant: the same, and its findMany selects the due
\* rows.
SweepDueStart(s) ==
  /\ sweep[s].pc = "idle"
  /\ \E h \in SweepHeaders :
       sweep' = [sweep EXCEPT ![s] =
         IF checkAuth(h)
         THEN [IdleSweep EXCEPT !.pc = "findMany", !.keyed = CarriesKey(h),
                                !.dueOnly = TRUE]
         ELSE [IdleSweep EXCEPT !.pc = "done", !.status = 401,
                                !.keyed = CarriesKey(h), !.dueOnly = TRUE]]
  /\ last' = NoAttempt
  /\ UNCHANGED <<env, clinic, edmAuth, now, req, calls, nextTok, issued, storeUp>>

\* The while loop's findMany answers: an empty page ends the sweep, any other
\* page starts the for loop.  A findMany that throws ends POST in its catch.
SweepFindMany(s) ==
  /\ sweep[s].pc = "findMany"
  /\ IF storeUp
     THEN \E page \in IF sweep[s].dueOnly THEN FindDuePages ELSE FindManyPages :
            sweep' = [sweep EXCEPT ![s] =
              [@ EXCEPT !.page = page,
                        !.pages = Min(@ + 1, MaxResults),
                        !.idx = IF page = <<>> THEN 0 ELSE 1,
                        !.pc = IF page = <<>> THEN "done" ELSE "item",
                        !.status = IF page = <<>> THEN 200 ELSE 0]]
     ELSE sweep' = [sweep EXCEPT ![s] = [@ EXCEPT !.pc = "done", !.status = 500]]
  /\ last' = NoAttempt
  /\ UNCHANGED <<env, clinic, edmAuth, now, req, calls, nextTok, issued, storeUp>>

\* A loop that calls refreshRecord(r) again while a call of it is outstanding.
ReadyWithoutAwait(s) == sweep[s].pc \in {"item", "await"}

\* The for loop awaits refreshRecord(r) before it takes the next r.
ReadyForNext(s) == sweep[s].pc = "item"

\* A loop that fires refreshRecord(r) and goes on to the next r of the page.
AfterSendNoAwait(sw) ==
  IF sw.idx < Len(sw.page) THEN [sw EXCEPT !.idx = @ + 1] ELSE [sw EXCEPT !.pc = "await"]

\* const call = await fetch(...): refreshRecord, and the loop that awaits it,
\* are suspended until the token endpoint has answered.
AfterSend(sw) == [sw EXCEPT !.pc = "await"]

\* After refreshRecord returned res: the next r of the page, or the end of
\* the page, where a short page ends the sweep and a full one loops.
Continue(sw, res) ==
  LET pushed == [sw EXCEPT !.results = Push(@, res),
                           !.att = IdleSweep.att] IN
  IF sw.idx < Len(sw.page)
  THEN [pushed EXCEPT !.idx = @ + 1, !.pc = "item"]
  ELSE IF Len(sw.page) < batchSize
       THEN [pushed EXCEPT !.pc = "done", !.status = 200]
       ELSE [pushed EXCEPT !.pc = "findMany"]

\* refreshRecord(r) up to its fetch: decryptToken throws into the catch, or
\* the refresh-token grant is sent.
RefreshRecordSend(s) ==
  /\ ReadyForNext(s)
  /\ LET r == sweep[s].page[sweep[s].idx] IN
       IF decryptThrows(r.encryptedRefreshToken)
       THEN /\ sweep' = [sweep EXCEPT ![s] =
                 [@ EXCEPT !.pc = "catch",
                           !.att = [kind |-> "decryptError", t0 |-> now,
                                    resp |-> NoResp, storeErr |-> FALSE]]]
            /\ calls' = calls
       ELSE /\ calls' = calls \cup
                 {Grant(s, r, decryptToken(r.encryptedRefreshToken))}
            /\ sweep' = [sweep EXCEPT ![s] = AfterSend(@)]
  /\ last' = NoAttempt
  /\ UNCHANGED <<env, clinic, edmAuth, now, req, nextTok, issued, storeUp>>

\* refreshRecord resumes with a fetch that threw.
RefreshRecordThrown(s, c) ==
  /\ c.by = s /\ c.resp.status = "throw"
  /\ sweep[s].pc = "await"
  /\ calls' = calls \ {c}
  /\ sweep' = [sweep EXCEPT ![s] =
       [@ EXCEPT !.pc = "catch",
                 !.att = [kind |-> "networkError", t0 |-> c.t0, resp |-> c.resp,
                          storeErr |-> FALSE]]]
  /\ last' = NoAttempt
  /\ UNCHANGED <<env, clinic, edmAuth, now, req, nextTok, issued, storeUp>>

\* refreshRecord resumes with a non-2xx answer: the failure update, then
\* { ok: false }.  An update that throws goes to the catch.
RefreshRecordRejected(s, c) ==
  /\ c.by = s /\ c.resp.status = "error"
  /\ sweep[s].pc = "await"
  /\ calls' = calls \ {c}
  /\ LET id == c.rec.id
         e == edmAuth[id] IN
       IF storeUp
       THEN /\ e.refreshFailureCount < MaxFailures
            /\ edmAuth' = [edmAuth EXCEPT ![id] = FailureUpdate(e, now)]
            /\ sweep' = [sweep EXCEPT ![s] = Continue(@,
                 [id |-> id, ok |-> FALSE, details |-> Detail("", c.resp.body)])]
            /\ last' = Attempt(s, "sweep", "rejected", c.rec, c.t0, c.resp,
                               e, edmAuth'[id], TRUE, FALSE, FALSE)
       ELSE /\ edmAuth' = edmAuth
            /\ sweep' = [sweep EXCEPT ![s] =
                 [@ EXCEPT !.pc = "catch",
                           !.att = [kind |-> "rejected", t0 |-> c.t0, resp |-> c.resp,
                                    storeErr |-> TRUE]]]
            /\ last' = NoAttempt
  /\ UNCHANGED <<env, clinic, now, req, nextTok, issued, storeUp>>

\* refreshRecord resumes with a 2xx answer: the success update, then
\* { ok: true }.  An update that throws goes to the catch.
RefreshRecordOk(s, c) ==
  /\ c.by = s /\ c.resp.status = "ok"
  /\ sweep[s].pc = "await"
  /\ calls' = calls \ {c}
  /\ LET id == c.rec.id
         e == edmAuth[id] IN
       IF storeUp
       THEN
            /\ edmAuth' = [edmAuth EXCEPT ![id] =
                 RefreshRecordUpdate(e, c.rec, c.resp, now)]
            /\ sweep' = [sweep EXCEPT ![s] = Continue(@,
                 [id |-> id, ok |-> TRUE, details |-> NoDetails])]
            /\ last' = Attempt(s, "sweep", KindOfOk(c.resp), c.rec, c.t0, c.resp,
                               e, edmAuth'[id], TRUE, FALSE, TRUE)
       ELSE /\ edmAuth' = edmAuth
            /\ sweep' = [sweep EXCEPT ![s] =
                 [@ EXCEPT !.pc = "catch",
                           !.att = [kind |-> KindOfOk(c.resp), t0 |-> c.t0,
                                    resp |-> c.resp, storeErr |-> TRUE]]]
            /\ last' = NoAttempt
  /\ UNCHANGED <<env, clinic, now, req, nextTok, issued, storeUp>>

\* The catch of refreshRecord: the failure update, then { ok: false }.  When
\* this update throws too, the error leaves refreshRecord and POST answers 500.
RefreshRecordCatch(s) ==
  /\ sweep[s].pc = "catch"
  /\ LET sw == sweep[s]
         r == sw.page[sw.idx]
         e == edmAuth[r.id] IN
       IF storeUp
       THEN /\ e.refreshFailureCount < MaxFailures
            /\ edmAuth' = [edmAuth EXCEPT ![r.id] = FailureUpdate(e, now)]
            /\ sweep' = [sweep EXCEPT ![s] = Continue(@,
                 [id |-> r.id, ok |-> FALSE,
                  details |-> Detail(ErrMessage(sw.att.kind, sw.att.storeErr), NoBody)])]
            /\ last' = Attempt(s, "sweep", sw.att.kind, r, sw.att.t0, sw.att.resp,
                               e, edmAuth'[r.id], TRUE, sw.att.storeErr, FALSE)
       ELSE /\ edmAuth' = edmAuth
            /\ sweep' = [sweep EXCEPT ![s] =
                 [@ EXCEPT !.pc = "done", !.status = 500, !.att = IdleSweep.att]]
            /\ last' = Attempt(s, "sweep", sw.att.kind, r, sw.att.t0, sw.att.resp,
                               e, e, FALSE, TRUE, FALSE)
  /\ UNCHANGED <<env, clinic, now, req, calls, nextTok, issued, storeUp>>

\* The response was sent; the route can be invoked again.
SweepReturn(s) ==
  /\ sweep[s].pc = "done"
  /\ sweep' = [sweep EXCEPT ![s] = IdleSweep]
  /\ last' = NoAttempt
  /\ UNCHANGED <<env, clinic, edmAuth, now, req, calls, nextTok, issued, storeUp>>

\* ------------------------------- order-visit/route.ts, departments route
\* The business route is called: findFirst is sent.
RequestStart(r) ==
  /\ req[r].pc = "idle"
  /\ req' = [req EXCEPT ![r] = [IdleReq EXCEPT !.pc = "findFirst"]]
  /\ last' = NoAttempt
  /\ UNCHANGED <<env, clinic, edmAuth, now, sweep, calls, nextTok, issued, storeUp>>

\* A findFirst without the orderBy: any non-revoked row.
FindFirstRowsAnyOrder == NonRevoked

\* findFirst({ where: { revoked: false }, orderBy: { lastRefreshedAt: "desc" } }):
\* a non-revoked row no other non-revoked row was refreshed after (an absent
\* lastRefreshedAt sorts last).
FindFirstRows ==
  {i \in NonRevoked :
     \A j \in NonRevoked : edmAuth[j].lastRefreshedAt <= edmAuth[i].lastRefreshedAt}

\* findFirst answers: no row is 404, a findFirst that throws is 500.
RequestFindFirst(r) ==
  /\ req[r].pc = "findFirst"
  /\ IF ~storeUp
     THEN req' = [req EXCEPT ![r] = [@ EXCEPT !.pc = "done", !.status = 500]]
     ELSE IF FindFirstRows = {}
     THEN req' = [req EXCEPT ![r] = [@ EXCEPT !.pc = "done", !.status = 404]]
     ELSE \E i \in FindFirstRows :
            req' = [req EXCEPT ![r] =
              [@ EXCEPT !.pc = "ifNeeded", !.rec = Snap(i, edmAuth[i])]]
  /\ last' = NoAttempt
  /\ UNCHANGED <<env, clinic, edmAuth, now, sweep, calls, nextTok, issued, storeUp>>

\* A fast-path test with twice the margin.
StillValidWiderMargin(rec, t) ==
  /\ rec.encryptedAccessToken # NoCipher
  /\ rec.accessTokenExpiresAt # NoTime
  /\ rec.accessTokenExpiresAt > t + 2 * SafetyMargin

\* A fast-path test that takes a token expiring exactly at the margin.
StillValidAtMargin(rec, t) ==
  /\ rec.encryptedAccessToken # NoCipher
  /\ rec.accessTokenExpiresAt # NoTime
  /\ rec.accessTokenExpiresAt >= t + SafetyMargin

\* The fast-path test of refreshAccessTokenIfNeeded.
StillValid(rec, t) ==
  /\ rec.encryptedAccessToken # NoCipher
  /\ rec.accessTokenExpiresAt # NoTime
  /\ rec.accessTokenExpiresAt > t + SafetyMargin

\* A route that logs the failure and goes on to its upstream calls.
TokenFailureIgnored(rq, details) == [rq EXCEPT !.pc = "business"]

\* The catch around refreshAccessTokenIfNeeded: 502 failed_to_get_access_token
\* with details: err.message, and the route returns.
TokenFailure(rq, details) ==
  [rq EXCEPT !.pc = "done", !.status = 502, !.details = details]

\* refreshAccessTokenIfNeeded(rec) up to its fetch: the stored token on the
\* fast path, else the refresh-token grant is sent.  A decryptToken that
\* throws leaves the function and the route answers 502.
IfNeededSend(r) ==
  /\ req[r].pc = "ifNeeded"
  /\ LET rec == req[r].rec IN
       IF StillValid(rec, now)
       THEN /\ req' = [req EXCEPT ![r] =
                 IF decryptThrows(rec.encryptedAccessToken)
                 THEN TokenFailure([@ EXCEPT !.t0 = now],
                                   Detail(ErrMessage("decryptError", FALSE), NoBody))
                 ELSE [@ EXCEPT !.pc = "business", !.t0 = now,
                                !.accessToken = decryptToken(rec.encryptedAccessToken)]]
            /\ calls' = calls
            /\ last' = NoAttempt
       ELSE IF decryptThrows(rec.encryptedRefreshToken)
       THEN /\ req' = [req EXCEPT ![r] =
                 TokenFailure([@ EXCEPT !.t0 = now],
                              Detail(ErrMessage("decryptError", FALSE), NoBody))]
            /\ calls' = calls
            /\ last' = Attempt(r, "request", "decryptError", rec, now, NoResp,
                               edmAuth[rec.id], edmAuth[rec.id], FALSE, FALSE, FALSE)
       ELSE /\ calls' = calls \cup
                 {Grant(r, rec, decryptToken(rec.encryptedRefreshToken))}
            /\ req' = [req EXCEPT ![r] =
                 [@ EXCEPT !.pc = "await", !.t0 = now, !.grants = @ + 1]]
            /\ last' = NoAttempt
  /\ UNCHANGED <<env, clinic, edmAuth, now, sweep, nextTok, issued, storeUp>>

\* refreshAccessTokenIfNeeded resumes with a fetch that threw: 502.
IfNeededThrown(r, c) ==
  /\ c.by = r /\ c.resp.status = "throw"
  /\ req[r].pc = "await"
  /\ calls' = calls \ {c}
  /\ req' = [req EXCEPT ![r] =
       TokenFailure(@, Detail(ErrMessage("networkError", FALSE), NoBody))]
  /\ last' = Attempt(r, "request", "networkError", c.rec, c.t0, c.resp,
                     edmAuth[c.rec.id], edmAuth[c.rec.id], FALSE, FALSE, FALSE)
  /\ UNCHANGED <<env, clinic, edmAuth, now, sweep, nextTok, issued, storeUp>>

\* refreshAccessTokenIfNeeded resumes with a non-2xx answer: the failure
\* update, then it throws: 502.
IfNeededRejected(r, c) ==
  /\ c.by = r /\ c.resp.status = "error"
  /\ req[r].pc = "await"
  /\ calls' = calls \ {c}
  /\ LET id == c.rec.id
         e == edmAuth[id] IN
       /\ storeUp => e.refreshFailureCount < MaxFailures
       /\ edmAuth' = IF storeUp THEN [edmAuth EXCEPT ![id] = FailureUpdate(e, now)]
                     ELSE edmAuth
       /\ last' = Attempt(r, "request", "rejected", c.rec, c.t0, c.resp,
                          e, edmAuth'[id], storeUp, ~storeUp, FALSE)
  /\ req' = [req EXCEPT ![r] =
       IF storeUp
       THEN TokenFailure([@ EXCEPT !.writes = @ + 1],
                         Detail("EDM refresh failed: ", c.resp.body))
       ELSE TokenFailure(@, Detail(ErrMessage("rejected", TRUE), NoBody))]
  /\ UNCHANGED <<env, clinic, now, sweep, nextTok, issued, storeUp>>

\* refreshAccessTokenIfNeeded resumes with a 2xx answer: without access_token
\* it throws (502) before any update; else the success update, and the
\* access_token is returned.  An update that throws is 502 too.
IfNeededOk(r, c) ==
  /\ c.by = r /\ c.resp.status = "ok"
  /\ req[r].pc = "await"
  /\ calls' = calls \ {c}
  /\ LET id == c.rec.id
         e == edmAuth[id] IN
       IF c.resp.access_token = NoTok
       THEN /\ edmAuth' = edmAuth
            /\ req' = [req EXCEPT ![r] =
                 TokenFailure(@, Detail(ErrMessage("malformed", FALSE), NoBody))]
            /\ last' = Attempt(r, "request", "malformed", c.rec, c.t0, c.resp,
                               e, e, FALSE, FALSE, FALSE)
       ELSE IF storeUp
       THEN
            /\ edmAuth' = [edmAuth EXCEPT ![id] =
                 IfNeededUpdate(e, c.rec, c.resp, now)]
            /\ req' = [req EXCEPT ![r] =
                 [@ EXCEPT !.pc = "business", !.writes = @ + 1,
                           !.accessToken = c.resp.access_token]]
            /\ last' = Attempt(r, "request", "success", c.rec, c.t0, c.resp,
                               e, edmAuth'[id], TRUE, FALSE, TRUE)
       ELSE /\ edmAuth' = edmAuth
            /\ req' = [req EXCEPT ![r] =
                 TokenFailure(@, Detail(ErrMessage("success", TRUE), NoBody))]
            /\ last' = Attempt(r, "request", "success", c.rec, c.t0, c.resp,
                               e, e, FALSE, TRUE, FALSE)
  /\ UNCHANGED <<env, clinic, now, sweep, nextTok, issued, storeUp>>

\* The route goes on to its upstream business calls with the token and answers.
RequestBusiness(r) ==
  /\ req[r].pc = "business"
  /\ req' = [req EXCEPT ![r] = [@ EXCEPT !.pc = "done", !.status = 200]]
  /\ last' = NoAttempt
  /\ UNCHANGED <<env, clinic, edmAuth, now, sweep, calls, nextTok, issued, storeUp>>

\* The response was sent; the route can be called again.
RequestReturn(r) ==
  /\ req[r].pc = "done"
  /\ req' = [req EXCEPT ![r] = IdleReq]
  /\ last' = NoAttempt
  /\ UNCHANGED <<env, clinic, edmAuth, now, sweep, calls, nextTok, issued, storeUp>>

\* ------------------------------------------- order-visit/route.ts, POST
\* The answer of the route with the given status and text.
Answered(r, status, text) ==
  /\ req' = [req EXCEPT ![r] = [@ EXCEPT !.pc = "done", !.status = status]]
  /\ ov' = [ov EXCEPT ![r] = [@ EXCEPT !.pc = "done", !.answer = text,
                                       !.call = NoCall]]

\* POST up to its first await: a body without userId, or without name and
\* surname, is 400; else findUnique is sent.
OrderVisitStart(r) ==
  /\ req[r].pc = "idle" /\ ov[r].pc = "idle"
  /\ \E uid \in UserIds \cup {NoUserId, UnknownUserId}, named \in BOOLEAN :
       LET o == [IdleVisit EXCEPT !.body = [userId |-> uid, named |-> named]] IN
       IF uid = NoUserId \/ ~named
       THEN /\ req' = [req EXCEPT ![r] =
                 [IdleReq EXCEPT !.pc = "done", !.status = 400]]
            /\ ov' = [ov EXCEPT ![r] =
                 [o EXCEPT !.pc = "done",
                           !.answer = IF uid = NoUserId THEN "userId is required"
                                      ELSE "name and surname required"]]
       ELSE /\ req' = [req EXCEPT ![r] = [IdleReq EXCEPT !.pc = "route"]]
            /\ ov' = [ov EXCEPT ![r] = [o EXCEPT !.pc = "findUser"]]
  /\ last' = NoAttempt
  /\ UNCHANGED <<env, edmAuth, now, sweep, calls, nextTok, issued, storeUp,
                 user, edmCfg, imp, edm>>

\* prisma.user.findUnique answers: no user is 404; else findFirst on edmAuth
\* is sent.  A findUnique that throws is 500.
OrderVisitFindUser(r) ==
  /\ ov[r].pc = "findUser"
  /\ LET uid == ov[r].body.userId IN
       IF ~storeUp THEN Answered(r, 500, "server_error")
       ELSE IF uid \notin UserIds THEN Answered(r, 404, "user_not_found")
       ELSE /\ req' = [req EXCEPT ![r] = [@ EXCEPT !.pc = "findFirst"]]
            /\ ov' = [ov EXCEPT ![r] = [@ EXCEPT !.pc = "token", !.user = user[uid]]]
  /\ last' = NoAttempt
  /\ UNCHANGED <<env, edmAuth, now, sweep, calls, nextTok, issued, storeUp,
                 user, edmCfg, imp, edm>>

\* !externalPatientId of the user as loaded: no patient of the EDM yet.
IsPatient(u) == u.externalPatientId # NoPatient

\* With the access token: a user without externalPatientId gets the
\* create-patient call; a user with one goes on to the doctor and department.
OrderVisitPatient(r) ==
  /\ req[r].pc = "business" /\ ov[r].pc = "token"
  /\ ov' = [ov EXCEPT ![r] =
       IF IsPatient(@.user)
       THEN [@ EXCEPT !.pc = "cfg",
                      !.externalPatientId = ov[r].user.externalPatientId]
       ELSE [@ EXCEPT !.pc = "awaitPatient", !.created = TRUE,
                      !.call = [NoCall EXCEPT !.to = "/patients/",
                                              !.status = "pending",
                                              !.token = req[r].accessToken]]]
  /\ last' = NoAttempt
  /\ UNCHANGED <<env, edmAuth, now, sweep, req, calls, nextTok, issued, storeUp,
                 user, edmCfg, imp, edm>>

\* A route that does not store the id of the patient it created.
UserUpdateSkipped(u, id) == u

\* prisma.user.update({ data: { externalPatientId } }).
UserUpdate(u, id) == [u EXCEPT !.externalPatientId = id]

\* The create-patient call is answered: a fetch that threw is 500, a non-2xx
\* answer is { ok: false, step: "create_patient" } with status 200; else the
\* id of the answer is stored in the user's row (an update that throws is 500)
\* and findFirst on edmDoctorDepartment is sent.
OrderVisitPatientCreated(r) ==
  /\ ov[r].pc = "awaitPatient" /\ ov[r].call.status # "pending"
  /\ LET c == ov[r].call
         uid == ov[r].body.userId IN
       IF c.status = "throw" \/ (c.status = "ok" /\ ~storeUp)
       THEN Answered(r, 500, "server_error") /\ user' = user
       ELSE IF c.status = "error"
       THEN Answered(r, 200, "create_patient") /\ user' = user
       ELSE /\ user' = [user EXCEPT ![uid] = UserUpdate(@, c.id)]
            /\ ov' = [ov EXCEPT ![r] =
                 [@ EXCEPT !.pc = "cfg", !.externalPatientId = c.id,
                           !.call = NoCall]]
            /\ req' = req
  /\ last' = NoAttempt
  /\ UNCHANGED <<env, edmAuth, now, sweep, calls, nextTok, issued, storeUp,
                 edmCfg, imp, edm>>

\* A test that is content with one of the two ids.
HasEitherId(row) ==
  row.doctorExternalId # NoId \/ row.departmentExternalId # NoId

\* !doctorExternalId || !officeExternalId is false: the row has both ids.
HasBothIds(row) ==
  row.doctorExternalId # NoId /\ row.departmentExternalId # NoId

\* edmDoctorDepartment.findFirst answers: no row, or a row without doctor or
\* department id, is 400; else the create-visit call is sent.  A findFirst
\* that throws is 500.
OrderVisitFindCfg(r) ==
  /\ ov[r].pc = "cfg"
  /\ IF ~storeUp THEN Answered(r, 500, "server_error")
     ELSE IF edmCfg = <<>>
     THEN Answered(r, 400, "no_edm_doctor_department_configured")
     ELSE LET edmCfgRow == edmCfg[Len(edmCfg)] IN
          IF ~HasBothIds(edmCfgRow)
          THEN Answered(r, 400, "doctor or office not configured")
          ELSE /\ ov' = [ov EXCEPT ![r] =
                    [@ EXCEPT !.pc = "awaitVisit", !.visit = TRUE,
                              !.call = [NoCall EXCEPT
                                 !.to = "/visits/", !.status = "pending",
                                 !.token = req[r].accessToken,
                                 !.patient = ov[r].externalPatientId,
                                 !.doctor = edmCfgRow.doctorExternalId,
                                 !.office = edmCfgRow.departmentExternalId]]]
               /\ req' = req
  /\ last' = NoAttempt
  /\ UNCHANGED <<env, edmAuth, now, sweep, calls, nextTok, issued, storeUp,
                 user, edmCfg, imp, edm>>

\* The create-visit call is answered: a fetch that threw is 500, a non-2xx
\* answer is { ok: false, step: "create_visit" } with status 200, else
\* { ok: true }.
OrderVisitCreated(r) ==
  /\ ov[r].pc = "awaitVisit" /\ ov[r].call.status # "pending"
  /\ LET c == ov[r].call IN
       IF c.status = "throw" THEN Answered(r, 500, "server_error")
       ELSE IF c.status = "error" THEN Answered(r, 200, "create_visit")
       ELSE Answered(r, 200, "ok")
  /\ last' = NoAttempt
  /\ UNCHANGED <<env, edmAuth, now, sweep, calls, nextTok, issued, storeUp,
                 user, edmCfg, imp, edm>>

\* The response was sent (also the 404 and 502 of the token part); the route
\* can be called again.
OrderVisitReturn(r) ==
  /\ req[r].pc = "done" /\ ov[r].pc # "idle"
  /\ req' = [req EXCEPT ![r] = IdleReq]
  /\ ov' = [ov EXCEPT ![r] = IdleVisit]
  /\ last' = NoAttempt
  /\ UNCHANGED <<env, edmAuth, now, sweep, calls, nextTok, issued, storeUp,
                 user, edmCfg, imp, edm>>

\* ------------------------------------------------------------- the EDM
\* The EDM answers the call of request r.
EdmAnswer(r, status, id) ==
  /\ ov[r].call.status = "pending"
  /\ ov' = [ov EXCEPT ![r] = [@ EXCEPT !.call = [@ EXCEPT !.status = status,
                                                       !.id = id]]]
  /\ last' = NoAttempt
  /\ UNCHANGED <<env, edmAuth, now, sweep, req, calls, nextTok, issued, storeUp,
                 user, edmCfg, imp>>

\* POST /patients/ creates a patient and answers with its id.
EdmCreatesPatient(r) ==
  /\ ov[r].call.to = "/patients/"
  /\ edm.nextPatient < FirstPatient + MaxPatients
  /\ EdmAnswer(r, "ok", edm.nextPatient)
  /\ edm' = [edm EXCEPT !.nextPatient = @ + 1,
                        !.patients = @ \cup {edm.nextPatient}]

\* POST /visits/ creates the visit.
EdmCreatesVisit(r) ==
  /\ ov[r].call.to = "/visits/"
  /\ EdmAnswer(r, "ok", NoPatient)
  /\ edm' = [edm EXCEPT !.visits = @ \cup
       {[patient |-> ov[r].call.patient, doctor |-> ov[r].call.doctor,
         office |-> ov[r].call.office]}]

\* The EDM answers a call with a non-2xx status (a validation error).
EdmRejects(r) == EdmAnswer(r, "error", NoPatient) /\ edm' = edm

\* The EDM cannot be reached: fetch throws in the route.
EdmThrows(r) == EdmAnswer(r, "throw", NoPatient) /\ edm' = edm

\* ------------------------------------------------------ import/route.ts
\* typeof id === "number" ? id : ... : undefined, then `?? undefined`: a
\* missing id leaves the column as it is (unset in a new row).
Chosen(extId, stored) == IF extId = NoId THEN stored ELSE extId

\* POST up to its first await: a body without doctor or department is 400.
ImportStart(p) ==
  /\ imp[p].pc = "idle"
  /\ \E d \in DoctorInputs, dep \in DepartmentInputs :
       imp' = [imp EXCEPT ![p] =
         IF d = Absent \/ dep = Absent
         THEN [IdleImport EXCEPT !.pc = "done", !.status = 400]
         ELSE [IdleImport EXCEPT !.pc = "findFirst", !.doctor = d,
                                 !.department = dep]]
  /\ last' = NoAttempt
  /\ UNCHANGED <<env, edmAuth, now, sweep, req, calls, nextTok, issued, storeUp,
                 user, edmCfg, ov, edm>>

\* findFirst({ orderBy: { createdAt: "desc" } }) answers: the newest row, or
\* none.  A findFirst that throws is 500.
ImportFindFirst(p) ==
  /\ imp[p].pc = "findFirst"
  /\ imp' = [imp EXCEPT ![p] =
       IF storeUp THEN [@ EXCEPT !.pc = "write", !.existing = Len(edmCfg)]
       ELSE [@ EXCEPT !.pc = "done", !.status = 500]]
  /\ last' = NoAttempt
  /\ UNCHANGED <<env, edmAuth, now, sweep, req, calls, nextTok, issued, storeUp,
                 user, edmCfg, ov, edm>>

\* if (existing) update where id = existing.id, else create.  An update or
\* create that throws is 500.
ImportWrite(p) ==
  /\ imp[p].pc = "write"
  /\ LET k == imp[p].existing IN
       IF ~storeUp
       THEN /\ edmCfg' = edmCfg
            /\ imp' = [imp EXCEPT ![p] = [@ EXCEPT !.pc = "done", !.status = 500]]
       ELSE /\ edmCfg' =
                 IF k > 0
                 THEN [edmCfg EXCEPT ![k] =
                        [doctorExternalId |-> Chosen(imp[p].doctor, @.doctorExternalId),
                         departmentExternalId |->
                           Chosen(imp[p].department, @.departmentExternalId)]]
                 ELSE Append(edmCfg,
                        [doctorExternalId |-> imp[p].doctor,
                         departmentExternalId |-> imp[p].department])
            /\ imp' = [imp EXCEPT ![p] = [@ EXCEPT !.pc = "done", !.status = 200]]
  /\ last' = NoAttempt
  /\ UNCHANGED <<env, edmAuth, now, sweep, req, calls, nextTok, issued, storeUp,
                 user, ov, edm>>

\* The response was sent; the route can be called again.
ImportReturn(p) ==
  /\ imp[p].pc = "done"
  /\ imp' = [imp EXCEPT ![p] = IdleImport]
  /\ last' = NoAttempt
  /\ UNCHANGED <<env, edmAuth, now, sweep, req, calls, nextTok, issued, storeUp,
                 user, edmCfg, ov, edm>>


\* ------------------------------------------------------ the specification
Upstream ==
  \E c \in calls :
    \/ UpstreamThrows(c)
    \/ UpstreamRejects(c)
    \/ UpstreamEmpty(c)
    \/ UpstreamGrants(c)

SweepStep ==
  \E s \in Sweepers :
    \/ SweepStart(s)
    \/ SweepFindMany(s)
    \/ RefreshRecordSend(s)
    \/ \E c \in calls : RefreshRecordThrown(s, c)
    \/ \E c \in calls : RefreshRecordRejected(s, c)
    \/ \E c \in calls : RefreshRecordOk(s, c)
    \/ RefreshRecordCatch(s)
    \/ SweepReturn(s)

RequestStep ==
  \E r \in Requests :
    \/ RequestStart(r)
    \/ RequestFindFirst(r)
    \/ IfNeededSend(r)
    \/ \E c \in calls : IfNeededThrown(r, c)
    \/ \E c \in calls : IfNeededRejected(r, c)
    \/ \E c \in calls : IfNeededOk(r, c)
    \/ RequestBusiness(r)
    \/ RequestReturn(r)

\* One entry in use; the sweep and a business route run side by side.
Next == Tick \/ Upstream \/ SweepStep \/ RequestStep

Spec == Init /\ [][Next]_vars

\* The same with database outages.
NextOutage == Next \/ StoreOutage

SpecOutage == Init /\ [][NextOutage]_vars

\* Any mix of rows; the sweep alone.
NextSweep == Upstream \/ SweepStep

SpecSweep == InitMany /\ [][NextSweep]_vars

\* The sweep alone over rows that decrypt, with a token endpoint that answers
\* every call and an event loop that runs every continuation that is ready.
InitHealthy ==
  (\E kinds \in [Ids -> {"live", "bare", "revoked"}] : InitWith(kinds)) /\ env = Configured

SpecSweepFair ==
  InitHealthy /\ [][NextSweep]_vars /\ WF_vars(Upstream) /\ WF_vars(SweepStep)

\* One entry in use under any configuration of process.env, the clock standing.
NextConfig == Upstream \/ SweepStep \/ RequestStep

SpecConfig == InitConfig /\ [][NextConfig]_vars

\* The same as Spec, with revocations.
Revocation == \E i \in Ids : Revoke(i)

NextRevoke == Next \/ Revocation

SpecRevoke == Init /\ [][NextRevoke]_vars

\* The sweep alone with an event loop that runs every continuation that is
\* ready, and a token endpoint that may leave a call without an answer.
SpecSweepStalled == InitHealthy /\ [][NextSweep]_vars /\ WF_vars(SweepStep)

\* Two refreshes of one entry, both of which the token endpoint can answer
\* with new tokens: a sweep beside a business route.
UpstreamRace ==
  \E c \in calls :
    \/ UpstreamThrows(c)
    \/ UpstreamRejects(c)
    \/ UpstreamEmpty(c)
    \/ UpstreamIssues(c, MaxIssuedRace)

NextRace == UpstreamRace \/ SweepStep \/ RequestStep

SpecRace == Init /\ [][NextRace]_vars

\* Any mix of rows; a business route alone, as time passes.
NextRequests == Tick \/ Upstream \/ RequestStep

SpecRequests == InitMany /\ [][NextRequests]_vars

\* The first row's refresh ciphertext is damaged, the second row is any; the
\* sweep and a business route run side by side.
InitDamaged ==
  /\ \E kinds \in [Ids -> EntryKinds] : kinds[1] = "damaged" /\ InitWith(kinds)
  /\ env = Configured

SpecDamaged == InitDamaged /\ [][NextConfig]_vars

\* Imports of doctor and department, two at a time.
ImportStep ==
  \E p \in Importers :
    \/ ImportStart(p)
    \/ ImportFindFirst(p)
    \/ ImportWrite(p)
    \/ ImportReturn(p)

SpecImport == Init /\ [][ImportStep]_vars

\* The order-visit route, one invocation at a time, with its token part.
OrderVisitStep ==
  \E r \in Requests :
    \/ OrderVisitStart(r)
    \/ OrderVisitFindUser(r)
    \/ RequestFindFirst(r)
    \/ IfNeededSend(r)
    \/ \E c \in calls : IfNeededThrown(r, c)
    \/ \E c \in calls : IfNeededRejected(r, c)
    \/ \E c \in calls : IfNeededOk(r, c)
    \/ OrderVisitPatient(r)
    \/ OrderVisitPatientCreated(r)
    \/ OrderVisitFindCfg(r)
    \/ OrderVisitCreated(r)
    \/ OrderVisitReturn(r)

EdmStep ==
  \E r \in Requests :
    \/ EdmCreatesPatient(r)
    \/ EdmCreatesVisit(r)
    \/ EdmRejects(r)
    \/ EdmThrows(r)

\* Bookings, one at a time, with database outages.  At the start one
\* credential entry is in use, the user is a
\* patient of the EDM or not yet, and no doctor and department is imported,
\* or a row with both ids, or a row without the doctor id.
InitBooking ==
  /\ \E kinds \in OneInUse : InitTokens(kinds)
  /\ env = Configured
  /\ \E users \in [UserIds -> {[externalPatientId |-> NoPatient],
                               [externalPatientId |-> KnownPatient]}],
        rows \in {<<>>,
                  <<[doctorExternalId |-> 7, departmentExternalId |-> 5]>>,
                  <<[doctorExternalId |-> NoId, departmentExternalId |-> 5]>>} :
       InitClinic(users, rows)

NextBooking == StoreOutage \/ Upstream \/ OrderVisitStep \/ EdmStep

SpecBooking == InitBooking /\ [][NextBooking]_vars

\* The due-only sweep alone, as time passes.
SweepDueStep ==
  \E s \in Sweepers :
    \/ SweepDueStart(s)
    \/ SweepFindMany(s)
    \/ RefreshRecordSend(s)
    \/ \E c \in calls : RefreshRecordThrown(s, c)
    \/ \E c \in calls : RefreshRecordRejected(s, c)
    \/ \E c \in calls : RefreshRecordOk(s, c)
    \/ RefreshRecordCatch(s)
    \/ SweepReturn(s)

\* Any mix of rows, each one due or refreshed a moment ago.
InitDue ==
  /\ \E kinds \in [Ids -> EntryKinds], due \in [Ids -> BOOLEAN] :
       InitRows([i \in Ids |->
                   [EntryAfterLogin(i, kinds[i]) EXCEPT
                      !.nextRefreshAt = IF due[i] THEN 0 ELSE SuccessDelay]],
                kinds)
  /\ env = Configured
  /\ NewClinic

NextDue == Tick \/ Upstream \/ SweepDueStep

SpecDue == InitDue /\ [][NextDue]_vars

\* Two order-visit requests that can overlap.
OrderVisitsStep ==
  \E r \in Callers :
    \/ OrderVisitStart(r)
    \/ OrderVisitFindUser(r)
    \/ RequestFindFirst(r)
    \/ IfNeededSend(r)
    \/ \E c \in calls : IfNeededThrown(r, c)
    \/ \E c \in calls : IfNeededRejected(r, c)
    \/ \E c \in calls : IfNeededOk(r, c)
    \/ OrderVisitPatient(r)
    \/ OrderVisitPatientCreated(r)
    \/ OrderVisitFindCfg(r)
    \/ OrderVisitCreated(r)
    \/ OrderVisitReturn(r)

EdmsStep ==
  \E r \in Callers :
    \/ EdmCreatesPatient(r)
    \/ EdmCreatesVisit(r)
    \/ EdmRejects(r)
    \/ EdmThrows(r)

NextBookings == Upstream \/ OrderVisitsStep \/ EdmsStep

SpecBookings == InitBooking /\ [][NextBookings]_vars
PendingCalls == {c \in calls : Pending(c)}

Completed == last.by # "none"

\* C1: one sweep over N non-revoked entries refreshes each entry exactly once,
\* returns exactly N outcomes, one per entry id, and fetches exactly
\* floor(N / batchSize) + 1 pages.
SweepExhaustion ==
  \A s \in Sweepers :
    LET sw == sweep[s]
        N == Cardinality(NonRevoked) IN
    /\ sw.pages <= (N \div batchSize) + 1
    /\ Len(sw.results) <= N
    /\ \A j, k \in 1..Len(sw.results) : j # k => sw.results[j].id # sw.results[k].id
    /\ (sw.pc = "done" /\ sw.status = 200) =>
         /\ Len(sw.results) = N
         /\ sw.pages = (N \div batchSize) + 1

\* C2 as claimed: in no interleaving of sweeps and request-triggered refreshes
\* are two grants in flight for the same entry with the same refresh token.
NoConcurrentGrants ==
  \A c1, c2 \in PendingCalls :
    (c1 # c2 /\ c1.rec.id = c2.rec.id) => c1.rt # c2.rt

\* C2 as amended: one invocation (a sweep, or a business route) never has two
\* grants in flight for the same entry with the same refresh token; grants of
\* two invocations can be.
NoConcurrentGrantsOfOneInvocation ==
  \A c1, c2 \in PendingCalls :
    (c1.by = c2.by /\ c1.rec.id = c2.rec.id /\ c1.rt = c2.rt) => c1 = c2

\* A grant of the sweep and a grant of a business route are in flight for the
\* same entry with the same refresh token.
SweepAndRequestGrantTogether ==
  \E c1, c2 \in PendingCalls :
    /\ c1.by \in Sweepers /\ c2.by \in Requests
    /\ c1.rec.id = c2.rec.id /\ c1.rt = c2.rt

\* C3: after every refresh attempt, on either path and whatever its outcome,
\* the entry's nextRefreshAt is later than the time the attempt started.
NextRefreshPushedForward ==
  (Completed /\ ~last.storeErr) => edmAuth[last.id].nextRefreshAt > last.t0

\* C4: a 2xx answer without access_token is a failure on every path: a failure
\* outcome, refreshFailureCount + 1, nextRefreshAt = now + 1h, and
\* lastRefreshedAt not set.
MalformedIsFailure ==
  (Completed /\ last.kind = "malformed" /\ ~last.storeErr) =>
    /\ ~last.ok
    /\ last.after.refreshFailureCount = last.before.refreshFailureCount + 1
    /\ last.after.nextRefreshAt = last.t1 + FailureDelay
    /\ last.after.lastRefreshedAt = last.before.lastRefreshedAt

\* C5: a stored access token whose stored expiry is more than 60 s away is the
\* token the upstream issued with the expires_in that expiry was computed from.
ExpiryBelongsToToken ==
  \A i \in Ids :
    LET e == edmAuth[i] IN
    (/\ e.encryptedAccessToken # NoCipher
     /\ e.accessTokenExpiresAt # NoTime
     /\ e.accessTokenExpiresAt > now + SafetyMargin) =>
      \E g \in issued :
        /\ g.at = decryptToken(e.encryptedAccessToken)
        /\ g.expires_in # 0
        /\ e.accessTokenExpiresAt - g.expires_in \in 0..now

\* C6: every sweep invocation terminates: once started it reaches its response.
SweepTerminates ==
  \A s \in Sweepers : (sweep[s].pc = "findMany") ~> (sweep[s].pc = "done")

\* C7: a sweep has at most one grant outstanding, the one of the entry its
\* loop is at: the grant and the update of an entry are over before the grant
\* of the next entry is sent, within a page and across pages.
SequentialSweep ==
  \A s \in Sweepers :
    /\ Cardinality({c \in calls : c.by = s}) <= 1
    /\ \A c \in calls : c.by = s =>
         /\ sweep[s].pc = "await"
         /\ c.rec = sweep[s].page[sweep[s].idx]

\* A grant is in flight for the second entry of the second page of a sweep.
SecondPageGrantInFlight ==
  \E s \in Sweepers, c \in PendingCalls :
    c.by = s /\ sweep[s].pages = 2 /\ sweep[s].idx = 2

\* C8: an attempt answered with a non-2xx status adds exactly 1 to
\* refreshFailureCount and sets nextRefreshAt to now + 1h, on both paths.
RejectionBacksOff ==
  (Completed /\ last.kind = "rejected" /\ ~last.storeErr) =>
    /\ last.written
    /\ last.after.refreshFailureCount = last.before.refreshFailureCount + 1
    /\ last.after.nextRefreshAt = last.t1 + FailureDelay
    /\ edmAuth[last.id] = last.after

\* A business route's refresh was rejected by the token endpoint.
RequestRefreshRejected ==
  Completed /\ last.kind = "rejected" /\ last.path = "request" /\ last.written

\* C9: a refresh answered with an access_token and no refresh_token stores the
\* refresh ciphertext and hash of the row as the refresh read it, sets
\* refreshFailureCount to 0, lastRefreshedAt to now, nextRefreshAt to
\* now + 8h, and stores a ciphertext that decrypts to the returned access token.
SuccessKeepsRefreshToken ==
  (/\ Completed /\ last.kind = "success" /\ ~last.storeErr
   /\ last.resp.refresh_token = NoTok) =>
    /\ last.written /\ last.ok
    /\ edmAuth[last.id] = last.after
    /\ last.after.encryptedRefreshToken = last.rec.encryptedRefreshToken
    /\ last.after.refreshTokenHash = last.rec.refreshTokenHash
    /\ last.after.refreshFailureCount = 0
    /\ last.after.lastRefreshedAt = last.t1
    /\ last.after.nextRefreshAt = last.t1 + SuccessDelay
    /\ ~decryptThrows(last.after.encryptedAccessToken)
    /\ decryptToken(last.after.encryptedAccessToken) = last.resp.access_token

\* The sweep stored an access token that came without a refresh token.
SweepSuccessWithoutRotation ==
  /\ Completed /\ last.kind = "success" /\ last.path = "sweep"
  /\ last.written /\ last.resp.refresh_token = NoTok

\* C10: a refresh answered with a new refresh_token replaces ciphertext and
\* hash in one update: in every state the hash of a row is the hash of the
\* token its refresh ciphertext decrypts to, and after the update the previous
\* refresh token no longer matches the stored hash.
RotationReplacesBoth ==
  /\ \A i \in Ids :
       ~decryptThrows(edmAuth[i].encryptedRefreshToken) =>
         edmAuth[i].refreshTokenHash =
           hashToken(decryptToken(edmAuth[i].encryptedRefreshToken))
  /\ (/\ Completed /\ last.kind = "success" /\ ~last.storeErr
      /\ last.resp.refresh_token # NoTok) =>
       /\ edmAuth[last.id] = last.after
       /\ decryptToken(last.after.encryptedRefreshToken) = last.resp.refresh_token
       /\ last.after.refreshTokenHash = hashToken(last.resp.refresh_token)
       /\ hashToken(decryptToken(last.before.encryptedRefreshToken))
            # last.after.refreshTokenHash
       /\ hashToken(decryptToken(last.rec.encryptedRefreshToken))
            # last.after.refreshTokenHash

\* A business route stored a rotated refresh token.
RequestStoredRotation ==
  /\ Completed /\ last.kind = "success" /\ last.path = "request"
  /\ last.written /\ last.resp.refresh_token # NoTok

\* The row a request read has an access token that expires more than 60 s
\* after time t.
FreshAt(rec, t) ==
  /\ rec.encryptedAccessToken # NoCipher
  /\ rec.accessTokenExpiresAt # NoTime
  /\ rec.accessTokenExpiresAt - t > 60

\* The request has called refreshAccessTokenIfNeeded.
Called(q) == q.t0 # NoTime

\* C11: when the row read has an access token expiring more than 60 s after
\* now, refreshAccessTokenIfNeeded returns the decrypted stored token, sends
\* no token-endpoint call and writes nothing: the step leaves every row and
\* the calls in flight as they were.
FastPathIsPure ==
  /\ [](\A r \in Requests :
          LET q == req[r] IN
          (Called(q) /\ FreshAt(q.rec, q.t0)) =>
            /\ q.pc \in {"business", "done"}
            /\ q.status \in {0, 200}
            /\ q.grants = 0 /\ q.writes = 0
            /\ q.accessToken = decryptToken(q.rec.encryptedAccessToken)
            /\ \A c \in calls : c.by # r)
  /\ [][\A r \in Requests :
          (/\ req[r].pc = "ifNeeded" /\ req'[r].pc # "ifNeeded"
           /\ FreshAt(req[r].rec, now)) =>
            (edmAuth' = edmAuth /\ calls' = calls)]_vars

\* A request got the stored token of a fresh row and is about to use it.
FastPathTaken ==
  \E r \in Requests :
    /\ req[r].pc = "business" /\ FreshAt(req[r].rec, req[r].t0)
    /\ req[r].accessToken = decryptToken(req[r].rec.encryptedAccessToken)

\* C12 as claimed: when the row read has no access token, no expiry, or an
\* expiry at most 60 s after now, one call of refreshAccessTokenIfNeeded sends
\* exactly one grant and never returns the stored access token.
StaleAlwaysGrants ==
  \A r \in Requests :
    LET q == req[r] IN
    (Called(q) /\ ~FreshAt(q.rec, q.t0)) =>
      /\ q.grants = 1
      /\ q.pc = "business" =>
           q.accessToken \notin {NoTok, decryptToken(q.rec.encryptedAccessToken)}

\* C12 as amended: the same when the row's refresh ciphertext decrypts; when
\* it does not, the call fails before any grant is sent.  No call of
\* refreshAccessTokenIfNeeded sends more than one grant.
StaleGrantsOnceIfDecryptable ==
  \A r \in Requests :
    LET q == req[r] IN
    /\ q.grants <= 1
    /\ (Called(q) /\ ~FreshAt(q.rec, q.t0)) =>
         /\ q.grants = IF decryptThrows(q.rec.encryptedRefreshToken) THEN 0 ELSE 1
         /\ decryptThrows(q.rec.encryptedRefreshToken) =>
              (q.pc = "done" /\ q.status = 502 /\ q.writes = 0)
         /\ q.pc = "business" =>
              q.accessToken \notin {NoTok, decryptToken(q.rec.encryptedAccessToken)}

\* A request sent a grant for a row whose access token expires exactly 60 s
\* after the call.
GrantSentAtMargin ==
  \E r \in Requests, c \in calls :
    /\ c.by = r /\ req[r].grants = 1
    /\ req[r].rec.encryptedAccessToken # NoCipher
    /\ req[r].rec.accessTokenExpiresAt = req[r].t0 + 60

\* C13: whatever fails for an entry of a page (decryption, upstream rejection,
\* network error, store-write error), the sweep records an outcome for that
\* entry and does not answer with a server error.
SweepSurvivesEntryFailures ==
  \A s \in Sweepers :
    (Completed /\ last.by = s) =>
      LET res == sweep[s].results IN
      /\ sweep[s].status # 500
      /\ Len(res) > 0
      /\ Len(res) = MaxResults \/ res[Len(res)].id = last.id

\* C14: a request whose refresh failed, for whatever reason, answers 502
\* failed_to_get_access_token, holds no token and makes no upstream business
\* call; a request that makes its business calls holds a token that
\* refreshAccessTokenIfNeeded returned to it, from the fast path or from a
\* refresh it stored.
TokenFailureStopsRoute ==
  \A r \in Requests :
    LET q == req[r] IN
    /\ (Completed /\ last.by = r /\ ~last.ok) =>
         (q.pc = "done" /\ q.status = 502 /\ q.accessToken = NoTok)
    /\ q.status = 502 => (q.pc = "done" /\ q.accessToken = NoTok)
    /\ (q.pc = "business" \/ q.status = 200) =>
         /\ Called(q)
         /\ q.accessToken # NoTok
         /\ q.details = NoDetails
         /\ \/ q.grants = 0 /\ q.writes = 0 /\ FreshAt(q.rec, q.t0)
            \/ q.grants = 1 /\ q.writes = 1

\* A request got its new token from the upstream, could not store it, and
\* answered 502.
RequestFailedOnStoreError ==
  \E r \in Requests :
    /\ Completed /\ last.by = r /\ last.kind = "success" /\ last.storeErr
    /\ req[r].status = 502

\* C15: a sweep request that does not carry the configured ADMIN_REFRESH_KEY
\* (as bearer token or API key), or that is made while the key is unset or
\* empty, gets 401, and no grant and no store write is made for it.
SweepOnlyWithKey ==
  \A s \in Sweepers :
    /\ (sweep[s].pc # "idle" /\ ~sweep[s].keyed) =>
         (sweep[s].pc = "done" /\ sweep[s].status = 401)
    /\ \A c \in calls : c.by = s => sweep[s].keyed
    /\ (Completed /\ last.by = s /\ last.written) => sweep[s].keyed

\* C16: no response of a business route carries the body the token endpoint
\* sent with its error.
NoUpstreamBodyInResponse ==
  \A r \in Requests : req[r].details.body = NoBody

\* C17: no grant is sent for an entry that is revoked when the grant is sent,
\* and no refresh update is written to a revoked entry.
RevokedNeverRefreshed ==
  /\ \A c \in calls : ~c.revokedAtSend
  /\ (Completed /\ last.written) => ~last.before.revoked

\* A value encryptToken produced.
Sealed(c) == c = encryptToken(decryptToken(c)) /\ ~decryptThrows(c)

\* The messages the routes put into outcomes and error responses.
Messages == {"", "EDM refresh failed: ", "CryptoError", "fetch failed",
             "No access_token in refresh response", "PrismaClientError"}

\* C18: every access-token column is empty or a value encryptToken produced;
\* every refresh-token column is a value encryptToken produced, or the damaged
\* ciphertext the row had from the start; a write leaves ciphertext and hash
\* or stores encryptToken and hashToken outputs of the answer's tokens; the
\* plaintext refresh token is in the grant and in no outcome or error
\* response, whose texts are fixed messages and the upstream's error body.
OnlyCiphertextStored ==
  /\ \A i \in Ids :
       /\ edmAuth[i].encryptedAccessToken = NoCipher
            \/ Sealed(edmAuth[i].encryptedAccessToken)
       /\ Sealed(edmAuth[i].encryptedRefreshToken)
            \/ edmAuth[i].encryptedRefreshToken = Corrupt(InitRefreshTok(i))
  /\ (Completed /\ last.written) =>
       /\ last.after.encryptedAccessToken = last.before.encryptedAccessToken
            \/ last.after.encryptedAccessToken = encryptToken(last.resp.access_token)
       /\ last.after.encryptedRefreshToken \in
            {last.before.encryptedRefreshToken, last.rec.encryptedRefreshToken,
             encryptToken(last.resp.refresh_token)}
       /\ last.after.refreshTokenHash \in
            {last.before.refreshTokenHash, last.rec.refreshTokenHash,
             hashToken(last.resp.refresh_token)}
  /\ \A c \in calls :
       ~decryptThrows(c.rec.encryptedRefreshToken)
         /\ c.rt = decryptToken(c.rec.encryptedRefreshToken)
  /\ \A r \in Requests :
       /\ req[r].details.text \in Messages
       /\ req[r].details.body \in {NoBody, UpstreamErrorBody}
  /\ \A s \in Sweepers : \A k \in 1..Len(sweep[s].results) :
       /\ sweep[s].results[k].details.text \in Messages
       /\ sweep[s].results[k].details.body \in {NoBody, UpstreamErrorBody}

\* A business route stored a new access token and a rotated refresh token
\* while its grant carried the plaintext of the old one.
RequestStoredNewCiphertexts ==
  /\ Completed /\ last.path = "request" /\ last.written /\ last.ok
  /\ last.resp.refresh_token # NoTok
  /\ last.after.encryptedAccessToken # last.before.encryptedAccessToken
  /\ last.after.encryptedRefreshToken # last.before.encryptedRefreshToken

\* C19: a grant of a sweep that the token endpoint never answers is ended
\* after a finite time: the sweep does not stay suspended in its fetch.
UnansweredGrantEnds ==
  \A s \in Sweepers : (sweep[s].pc = "await") ~> (sweep[s].pc # "await")

\* C20: while EDM_CLIENT_ID or EDM_CLIENT_SECRET is missing, no grant is sent
\* to the token endpoint and no entry is written.
NoGrantWithoutCredentials ==
  /\ \A c \in calls : c.client_id # "" /\ c.client_secret # ""
  /\ (env.EDM_CLIENT_ID = "" \/ env.EDM_CLIENT_SECRET = "") =>
       (Completed => ~last.written)

\* C25: after a successful refresh whose answer has no expires_in (or 0) the
\* row's accessTokenExpiresAt is absent: the expiry of the previous token is
\* not kept.
NoExpiresInClearsExpiry ==
  (/\ Completed /\ last.kind = "success" /\ last.written /\ ~last.storeErr
   /\ last.resp.expires_in = 0) =>
    edmAuth[last.id].accessTokenExpiresAt = NoTime

\* C27: refreshFailureCount counts the failed attempts since the last success:
\* every failed attempt, on either path and of every kind, adds exactly 1 to
\* the count of the row as it is when the attempt ends, and only an attempt
\* that stored a new access token sets it to 0.
FailureCountCountsFailures ==
  (Completed /\ ~last.storeErr) =>
    /\ edmAuth[last.id] = last.after
    /\ last.after.refreshFailureCount =
         IF last.kind = "success" THEN 0
         ELSE last.before.refreshFailureCount + 1

\* The columns of a row other than refreshFailureCount and nextRefreshAt.
OtherColumns(e) == [e EXCEPT !.refreshFailureCount = 0, !.nextRefreshAt = 0]

\* C30: a failed refresh attempt changes only refreshFailureCount and
\* nextRefreshAt of the row; every other column keeps its value.
FailureTouchesOnlySchedule ==
  (Completed /\ last.kind # "success" /\ ~last.storeErr) =>
    OtherColumns(edmAuth[last.id]) = OtherColumns(last.before)

\* C28: a successful refresh whose answer has no refresh_token never changes
\* the stored encryptedRefreshToken and refreshTokenHash, also when another
\* refresh committed a rotated token between its read and its update.
UnrotatedSuccessKeepsStoredToken ==
  (/\ Completed /\ last.kind = "success" /\ last.written /\ ~last.storeErr
   /\ last.resp.refresh_token = NoTok) =>
    /\ edmAuth[last.id].encryptedRefreshToken = last.before.encryptedRefreshToken
    /\ edmAuth[last.id].refreshTokenHash = last.before.refreshTokenHash

\* C29: with an upstream that rotates refresh tokens, once the refresh that
\* was granted the most recently issued refresh token has ended and no other
\* grant for the entry is in flight, the stored encryptedRefreshToken decrypts
\* to that token, whatever the interleaving and also after a store-write error.
StoredRefreshTokenIsLatest ==
  (/\ Completed /\ last.kind = "success"
   /\ last.resp.refresh_token = RefreshWith(nextTok - 1)
   /\ \A c \in calls : c.rec.id # last.id) =>
    /\ ~decryptThrows(edmAuth[last.id].encryptedRefreshToken)
    /\ decryptToken(edmAuth[last.id].encryptedRefreshToken) = last.resp.refresh_token

\* C21: the row a business route takes is a non-revoked row that no other
\* non-revoked row was refreshed after, as the store holds it at that time;
\* when there is no non-revoked row the route answers 404 and has made no
\* token-endpoint call, no upstream business call and no store write.
LatestEntryOr404 ==
  /\ [](\A r \in Requests :
          req[r].status = 404 =>
            /\ req[r].pc = "done"
            /\ req[r].grants = 0 /\ req[r].writes = 0
            /\ req[r].accessToken = NoTok
            /\ \A c \in calls : c.by # r)
  /\ [][\A r \in Requests :
          req[r].pc = "findFirst" /\ storeUp =>
            IF NonRevoked = {}
            THEN req'[r].pc = "done" /\ req'[r].status = 404
            ELSE LET i == req'[r].rec.id IN
                 /\ req'[r].pc = "ifNeeded"
                 /\ i \in NonRevoked
                 /\ \A j \in NonRevoked :
                      edmAuth[j].lastRefreshedAt <= edmAuth[i].lastRefreshedAt
                 /\ req'[r].rec = Snap(i, edmAuth[i])]_req

\* A business route took the row refreshed last while another non-revoked
\* row, refreshed earlier or never, is in the store.
RequestTookLatestOfTwo ==
  \E r \in Requests :
    /\ req[r].pc = "ifNeeded"
    /\ \E j \in NonRevoked :
         edmAuth[j].lastRefreshedAt < edmAuth[req[r].rec.id].lastRefreshedAt

\* C26: when the refresh ciphertext of an entry does not decrypt, no grant is
\* sent for the entry; the sweep records an ok = false outcome for it (seen
\* while the result list is followed), adds 1 to refreshFailureCount, sets
\* nextRefreshAt to now + 1h and goes on with the next entry; a business
\* route answers 502 and has written nothing.
DecryptFailureIsContained ==
  (Completed /\ last.kind = "decryptError" /\ ~last.storeErr) =>
    /\ \A c \in calls : c.by # last.by
    /\ last.resp = NoResp
    /\ last.path = "sweep" =>
         LET sw == sweep[last.by] IN
         /\ last.written /\ ~last.ok
         /\ edmAuth[last.id] = last.after
         /\ last.after.refreshFailureCount = last.before.refreshFailureCount + 1
         /\ last.after.nextRefreshAt = last.t1 + FailureDelay
         /\ sw.results # <<>>
         /\ Len(sw.results) < MaxResults =>
              /\ sw.results[Len(sw.results)].id = last.id
              /\ ~sw.results[Len(sw.results)].ok
         /\ \/ sw.pc = "item" /\ sw.idx > 1 /\ sw.page[sw.idx - 1].id = last.id
            \/ sw.pc = "findMany" /\ sw.page[Len(sw.page)].id = last.id
            \/ sw.pc = "done" /\ sw.status = 200 /\ sw.page[Len(sw.page)].id = last.id
    /\ last.path = "request" =>
         LET rq == req[last.by] IN
         /\ rq.pc = "done" /\ rq.status = 502
         /\ rq.grants = 0 /\ rq.writes = 0
         /\ edmAuth[last.id] = last.before

\* After a decryption failure on the first entry of its page the sweep sent
\* the grant for the second entry.
SweepWentOnAfterDecryptFailure ==
  \E s \in Sweepers, c \in PendingCalls :
    /\ c.by = s /\ sweep[s].idx = 2
    /\ Len(sweep[s].results) = 1
    /\ ~sweep[s].results[1].ok
    /\ sweep[s].results[1].details.text = ErrMessage("decryptError", FALSE)

\* C23: after any sequence or interleaving of imports with a doctor and a
\* department, the store holds at most one edmDoctorDepartment row.
SingleDoctorDepartment == Len(edmCfg) <= 1

\* C24: an order-visit request sends the create-patient call only when the
\* user it loaded has no externalPatientId, and only while the stored user
\* has none; the create-visit call is sent with the id the user's row holds,
\* which after a create is the id the EDM returned: the id is written before
\* the visit call, and a request that starts after the write creates no
\* patient.
PatientCreatedWhenUnknown ==
  \A r \in Requests :
    LET o == ov[r]
        uid == o.body.userId IN
    /\ o.created => o.user.externalPatientId = NoPatient
    /\ o.call.to = "/patients/" =>
         o.created /\ user[uid].externalPatientId = NoPatient
    /\ o.call.to = "/visits/" =>
         /\ o.call.patient # NoPatient
         /\ o.call.patient = user[uid].externalPatientId
         /\ o.created => o.call.patient \in edm.patients
         /\ ~o.created => o.call.patient = o.user.externalPatientId

\* A request sends the create-visit call without having created a patient,
\* for a user whose patient an earlier request created.
LaterRequestReusesPatient ==
  \E r \in Requests :
    /\ ov[r].call.to = "/visits/" /\ ~ov[r].created
    /\ ov[r].call.patient \in edm.patients

OnePatientPerUser ==
  /\ Cardinality(edm.patients) <= 1
  /\ \A u \in UserIds :
       /\ user[u].externalPatientId = KnownPatient => edm.patients = {}
       /\ (edm.patients # {} /\ \A r \in Callers : ov[r].pc = "idle") =>
            edm.patients = {user[u].externalPatientId}

\* The early answers of order-visit, before the access token is asked for.
EarlyAnswers == {"userId is required", "name and surname required",
                 "user_not_found"}

\* C32: the create-visit call is sent only in a request that has userId, name
\* and surname, found the user, holds an access token, holds a patient id (the
\* stored one, or the one the EDM returned for its create-patient call) and
\* read a doctor/department row with both ids; a request that ended with the
\* answer of a failed step executed no later step, and sent no create-visit
\* call.
VisitAfterEveryStep ==
  /\ \A r \in Requests :
       LET o == ov[r]
           q == req[r]
           uid == o.body.userId IN
       /\ o.visit =>
            /\ uid # NoUserId /\ o.body.named
            /\ uid \in UserIds
            /\ q.accessToken # NoTok
            /\ o.externalPatientId # NoPatient
            /\ IF o.created THEN o.externalPatientId \in edm.patients
               ELSE o.externalPatientId = o.user.externalPatientId
            /\ edmCfg # <<>> /\ HasBothIds(edmCfg[Len(edmCfg)])
       /\ o.call.to = "/visits/" =>
            /\ o.visit /\ o.pc = "awaitVisit"
            /\ o.call.token = q.accessToken
            /\ o.call.patient = o.externalPatientId
            /\ o.call.doctor = edmCfg[Len(edmCfg)].doctorExternalId
            /\ o.call.office = edmCfg[Len(edmCfg)].departmentExternalId
       /\ q.pc = "done" =>
            /\ o.call = NoCall
            /\ uid = NoUserId =>
                 q.status = 400 /\ o.answer = "userId is required"
            /\ (uid # NoUserId /\ ~o.body.named) =>
                 q.status = 400 /\ o.answer = "name and surname required"
            /\ o.answer \in EarlyAnswers =>
                 /\ q.status \in {400, 404}
                 /\ q.accessToken = NoTok /\ q.grants = 0 /\ q.writes = 0
                 /\ ~o.created /\ ~o.visit
            /\ q.status \in {404, 502} => ~o.created /\ ~o.visit
            /\ q.status = 502 => q.accessToken = NoTok
            /\ o.answer = "create_patient" =>
                 q.status = 200 /\ o.created /\ ~o.visit
            /\ o.answer \in {"no_edm_doctor_department_configured",
                             "doctor or office not configured"} =>
                 q.status = 400 /\ ~o.visit
            /\ o.answer \in {"create_visit", "ok"} => q.status = 200 /\ o.visit
            /\ q.status = 200 =>
                 o.answer \in {"create_patient", "create_visit", "ok"}
  /\ \A v \in edm.visits :
       v.patient # NoPatient /\ v.doctor # NoId /\ v.office # NoId

\* A request created the patient, stored its id and booked the visit.
VisitBookedForNewPatient ==
  \E r \in Requests :
    /\ req[r].pc = "done" /\ ov[r].answer = "ok"
    /\ ov[r].created /\ ov[r].visit
    /\ edm.visits # {}

====
